---- MODULE Spec2Model ----
(***************************************************************************)
(* Model of app.py: the file-name classifier simulate_llm_analysis and the *)
(* batch operation analyze_documents (checklist reconciliation, report     *)
(* assembly, reviewed-document output).                                    *)
(*                                                                         *)
(* A Python str is modelled as a sequence of one-character strings, so     *)
(* that lower(), split(), strip(), basename() and the `in` substring test  *)
(* are computed character by character as Python computes them.            *)
(***************************************************************************)
EXTENDS Integers, Sequences, FiniteSets, TLC

VARIABLES
    files_given,              \* FALSE when `files` is None
    files,                    \* the uploaded files, each by its file.name
    pc,                       \* position in analyze_documents / the classifier
    incorporation_checklist,  \* the seven flags, in declaration order
    all_issues,
    reviewed_file_paths,
    dir_exists,               \* os.path.exists("reviewed_docs")
    fs,                       \* the files under reviewed_docs: path -> document
    i,                        \* number of loop iterations completed
    doc_name,
    analysis_result,
    progress_log,             \* the calls made to progress(...)
    result,                   \* the returned (summary, report, paths)
    raised                    \* the gr.Error raised, if any

vars == <<files_given, files, pc, incorporation_checklist, all_issues,
          reviewed_file_paths, dir_exists, fs, i, doc_name,
          analysis_result, progress_log, result, raised>>

---------------------------------------------------------------------------
(* Bounds of the model *)

\* longest batch of uploaded files
MaxFiles == 2

\* longest classifier input, in name fragments
MaxFrags == 3

---------------------------------------------------------------------------
(* Python str operations *)

UpperToLower ==
    ("A" :> "a") @@ ("B" :> "b") @@ ("C" :> "c") @@ ("D" :> "d") @@
    ("E" :> "e") @@ ("F" :> "f") @@ ("G" :> "g") @@ ("H" :> "h") @@
    ("I" :> "i") @@ ("J" :> "j") @@ ("K" :> "k") @@ ("L" :> "l") @@
    ("M" :> "m") @@ ("N" :> "n") @@ ("O" :> "o") @@ ("P" :> "p") @@
    ("Q" :> "q") @@ ("R" :> "r") @@ ("S" :> "s") @@ ("T" :> "t") @@
    ("U" :> "u") @@ ("V" :> "v") @@ ("W" :> "w") @@ ("X" :> "x") @@
    ("Y" :> "y") @@ ("Z" :> "z")

\* str.lower()
lower(s) ==
    [k \in 1..Len(s) |->
        IF s[k] \in DOMAIN UpperToLower THEN UpperToLower[s[k]] ELSE s[k]]

\* `sub in s`
Contains(sub, s) ==
    \E k \in 0..(Len(s) - Len(sub)) :
        \A j \in 1..Len(sub) : s[k + j] = sub[j]

\* s.split('(')[0]
split_first(s) ==
    LET at == {k \in 1..Len(s) : s[k] = "("}
    IN  IF at = {} THEN s
        ELSE SubSeq(s, 1, (CHOOSE k \in at : \A m \in at : k <= m) - 1)

\* s.strip()
strip(s) ==
    LET ink == {k \in 1..Len(s) : s[k] # " "}
    IN  IF ink = {} THEN <<>>
        ELSE SubSeq(s, (CHOOSE k \in ink : \A m \in ink : k <= m),
                       (CHOOSE k \in ink : \A m \in ink : k >= m))

\* os.path.basename(p)
basename(p) ==
    LET at == {k \in 1..Len(p) : p[k] = "/"}
    IN  IF at = {} THEN p
        ELSE SubSeq(p, (CHOOSE k \in at : \A m \in at : k >= m) + 1, Len(p))

\* os.path.join(a, b)
path_join(a, b) ==
    IF Len(b) > 0 /\ b[1] = "/" THEN b
    ELSE IF a = <<>> \/ a[Len(a)] = "/" THEN a \o b
    ELSE a \o <<"/">> \o b

---------------------------------------------------------------------------
(* simulate_llm_analysis *)

kw_articles == <<"a","r","t","i","c","l","e","s">>
kw_aoa == <<"a","o","a">>
kw_board == <<"b","o","a","r","d">>
kw_resolution == <<"r","e","s","o","l","u","t","i","o","n">>
kw_memo == <<"m","e","m","o">>
kw_moa == <<"m","o","a">>
kw_ubo == <<"u","b","o">>
kw_register == <<"r","e","g","i","s","t","e","r">>

JurisdictionIssue ==
    [section    |-> "Jurisdiction Clause (Simulated)",
     issue      |-> "Jurisdiction clause does not explicitly specify 'ADGM Courts'.",
     severity   |-> "High",
     suggestion |-> "Update the jurisdiction clause to 'ADGM Courts' to comply with ADGM regulations."]

SignatoryIssue ==
    [section    |-> "Signatory Section (Simulated)",
     issue      |-> "Missing date on the signatory page.",
     severity   |-> "Medium",
     suggestion |-> "Ensure all signatory fields, including the date, are properly filled out."]

GeneralIssue ==
    [section    |-> "General Compliance (Simulated)",
     issue      |-> "Document format does not appear to match standard ADGM templates.",
     severity   |-> "Low",
     suggestion |-> "Cross-reference with the official ADGM templates to ensure full compliance and formatting."]

\* the dict `analysis` as first built
UnknownAnalysis == [doc_type |-> "Unknown", issues |-> <<>>]

\* a slip: only the acronym is tested
is_articles_acronym_only(l) == Contains(kw_aoa, l)

\* line 31: 'articles' in lower_doc_name or 'aoa' in lower_doc_name
is_articles(l) == Contains(kw_articles, l) \/ Contains(kw_aoa, l)

\* a slip: the two words are tested as one phrase
is_board_resolution_phrase(l) == Contains(kw_board \o <<" ">> \o kw_resolution, l)

\* line 39: 'board' in lower_doc_name and 'resolution' in lower_doc_name
is_board_resolution(l) == Contains(kw_board, l) /\ Contains(kw_resolution, l)

\* a slip: `and` for `or`
is_memorandum_both(l) == Contains(kw_memo, l) /\ Contains(kw_moa, l)

\* line 47: 'memo' in lower_doc_name or 'moa' in lower_doc_name
is_memorandum(l) == Contains(kw_memo, l) \/ Contains(kw_moa, l)

\* line 49
is_ubo(l) == Contains(kw_ubo, l)

\* line 51
is_register(l) == Contains(kw_register, l)

simulate_llm_analysis(name) ==
    LET lower_doc_name == lower(name)
    IN  IF is_articles(lower_doc_name)
        THEN [doc_type |-> "Articles of Association",
              issues   |-> UnknownAnalysis.issues \o <<JurisdictionIssue>>]
        ELSE IF is_board_resolution(lower_doc_name)
        THEN [doc_type |-> "Board Resolution",
              issues   |-> UnknownAnalysis.issues \o <<SignatoryIssue>>]
        ELSE IF is_memorandum(lower_doc_name)
        THEN [doc_type |-> "Memorandum of Association",
              issues   |-> UnknownAnalysis.issues]
        ELSE IF is_ubo(lower_doc_name)
        THEN [doc_type |-> "UBO Declaration Form",
              issues   |-> UnknownAnalysis.issues]
        ELSE IF is_register(lower_doc_name)
        THEN [doc_type |-> "Register of Members and Directors",
              issues   |-> UnknownAnalysis.issues]
        ELSE [doc_type |-> "General Document",
              issues   |-> UnknownAnalysis.issues \o <<GeneralIssue>>]

---------------------------------------------------------------------------
(* analyze_documents: constants *)

label_aoa == <<"A","r","t","i","c","l","e","s"," ","o","f"," ","A","s","s","o",
      "c","i","a","t","i","o","n"," ","(","A","o","A",")">>
label_moa == <<"M","e","m","o","r","a","n","d","u","m"," ","o","f"," ","A","s",
      "s","o","c","i","a","t","i","o","n"," ","(","M","o","A","/",
      "M","o","U",")">>
label_board == <<"B","o","a","r","d"," ","R","e","s","o","l","u","t","i","o","n",
      " ","T","e","m","p","l","a","t","e","s">>
label_shareholder == <<"S","h","a","r","e","h","o","l","d","e","r"," ","R","e","s","o",
      "l","u","t","i","o","n"," ","T","e","m","p","l","a","t","e",
      "s">>
label_incorporation == <<"I","n","c","o","r","p","o","r","a","t","i","o","n"," ","A","p",
      "p","l","i","c","a","t","i","o","n"," ","F","o","r","m">>
label_ubo == <<"U","B","O"," ","D","e","c","l","a","r","a","t","i","o","n"," ",
      "F","o","r","m">>
label_register == <<"R","e","g","i","s","t","e","r"," ","o","f"," ","M","e","m","b",
      "e","r","s"," ","a","n","d"," ","D","i","r","e","c","t","o",
      "r","s">>

\* the keys of incorporation_checklist, in insertion order
checklist_keys ==
    <<label_aoa, label_moa, label_board, label_shareholder,
      label_incorporation, label_ubo, label_register>>

\* the dict as first built: every flag False
new_checklist == [k \in 1..Len(checklist_keys) |-> FALSE]

output_dir == <<"r","e","v","i","e","w","e","d","_","d","o","c","s">>
reviewed_prefix == <<"r","e","v","i","e","w","e","d","_">>
none_sentinel == <<"N","o","n","e">>

NoResult == [returned |-> FALSE]
NotRaised == "-"

\* a slip: `files is None` for `not files`
NoFiles_none_only(given, f) == ~given

\* `not files`
NoFiles(given, f) == ~given \/ Len(f) = 0

\* a slip: the strip() is left out
simplified_key_unstripped(key) == lower(split_first(key))

\* key.split('(')[0].strip().lower()
simplified_key(key) == lower(strip(split_first(key)))

\* a slip: the flag is assigned the outcome of the test
UpdateChecklist_assign(checklist, name) ==
    [k \in 1..Len(checklist_keys) |->
        Contains(simplified_key(checklist_keys[k]), lower(name))]

\* the loop over the checklist keys for one document name, lines 106-109
UpdateChecklist(checklist, name) ==
    [k \in 1..Len(checklist_keys) |->
        IF Contains(simplified_key(checklist_keys[k]), lower(name))
        THEN TRUE
        ELSE checklist[k]]

\* [{"document": doc_name, **issue} for issue in analysis_result["issues"]]
TagIssues(name, analysis) ==
    [k \in 1..Len(analysis.issues) |->
        analysis.issues[k] @@ [document |-> name]]

\* a slip: the issues are tagged with file.name
ExtendIssues_full_path(issues, file_name, name, analysis) ==
    IF analysis.issues # <<>>
    THEN issues \o TagIssues(file_name, analysis)
    ELSE issues

\* if analysis_result.get("issues"): all_issues.extend(...)
ExtendIssues(issues, file_name, name, analysis) ==
    IF analysis.issues # <<>>
    THEN issues \o TagIssues(name, analysis)
    ELSE issues

\* the try/except around docx.Document(file.name)
OpenDocument(file_name, name, parse_ok) ==
    IF parse_ok
    THEN [base |-> "original", source |-> file_name, comments |-> <<>>]
    ELSE [base |-> "placeholder", source |-> name, comments |-> <<>>]

\* the "AI Analysis & Comments" section, one comment per issue
InsertComments(doc, analysis) ==
    IF analysis.issues # <<>>
    THEN [doc EXCEPT !.comments = @ \o analysis.issues]
    ELSE doc

\* doc.save(path): creates or replaces the file at path
Save(files_on_disk, path, doc) ==
    [p \in DOMAIN files_on_disk \cup {path} |->
        IF p = path THEN doc ELSE files_on_disk[p]]

missing_docs(checklist) ==
    SelectSeq(checklist_keys,
              LAMBDA key : \E k \in 1..Len(checklist_keys) :
                               checklist_keys[k] = key /\ ~checklist[k])

checklist_summary(f, checklist) ==
    [text     |-> "It appears you're trying to incorporate a company in ADGM. You have uploaded {} out of {} required documents.",
     uploaded |-> Len(f),
     required |-> Len(checklist_keys),
     tail     |-> IF missing_docs(checklist) # <<>>
                  THEN <<"The missing document appears to be:",
                         missing_docs(checklist)[1]>>
                  ELSE <<"All required documents for incorporation appear to be present.",
                         <<>> >>]

report(f, checklist, issues) ==
    [process            |-> "Company Incorporation",
     documents_uploaded |-> Len(f),
     required_documents |-> Len(checklist_keys),
     missing_document   |-> IF missing_docs(checklist) # <<>>
                            THEN missing_docs(checklist)[1]
                            ELSE none_sentinel,
     issues_found       |-> issues]

---------------------------------------------------------------------------
(* The inputs *)

upload_aoa_acme == <<"/","t","m","p","/","g","r","a","d","i","o","/","1","/","A","o",
      "A","_","A","c","m","e",".","d","o","c","x">>
upload_aoa_acme_again == <<"/","t","m","p","/","g","r","a","d","i","o","/","2","/","A","o",
      "A","_","A","c","m","e",".","d","o","c","x">>
upload_board_acme == <<"/","t","m","p","/","g","r","a","d","i","o","/","1","/","B","o",
      "a","r","d","_","R","e","s","o","l","u","t","i","o","n","_",
      "A","c","m","e",".","d","o","c","x">>
upload_random == <<"/","t","m","p","/","g","r","a","d","i","o","/","1","/","r","a",
      "n","d","o","m","f","i","l","e",".","d","o","c","x">>
upload_articles == <<"/","t","m","p","/","g","r","a","d","i","o","/","1","/","A","r",
      "t","i","c","l","e","s"," ","o","f"," ","A","s","s","o","c",
      "i","a","t","i","o","n",".","d","o","c","x">>
upload_ubo == <<"/","t","m","p","/","g","r","a","d","i","o","/","1","/","u","b",
      "o"," ","d","e","c","l","a","r","a","t","i","o","n"," ","f",
      "o","r","m",".","d","o","c","x">>
upload_first_three ==
    <<"/","t","m","p","/","g","r","a","d","i","o","/","1","/","A","R",
      "T","I","C","L","E","S"," ","O","F"," ","A","S","S","O","C",
      "I","A","T","I","O","N",","," ","M","e","m","o","r","a","n",
      "d","u","m"," ","o","f"," ","A","s","s","o","c","i","a","t",
      "i","o","n",","," ","B","o","a","r","d"," ","R","e","s","o",
      "l","u","t","i","o","n"," ","T","e","m","p","l","a","t","e",
      "s",".","d","o","c","x">>
upload_last_four ==
    <<"/","t","m","p","/","g","r","a","d","i","o","/","1","/","S","h",
      "a","r","e","h","o","l","d","e","r"," ","R","e","s","o","l",
      "u","t","i","o","n"," ","T","e","m","p","l","a","t","e","s",
      ","," ","I","n","c","o","r","p","o","r","a","t","i","o","n",
      " ","A","p","p","l","i","c","a","t","i","o","n"," ","F","o",
      "r","m",","," ","U","B","O"," ","D","e","c","l","a","r","a",
      "t","i","o","n"," ","F","o","r","m",","," ","R","e","g","i",
      "s","t","e","r"," ","o","f"," ","M","e","m","b","e","r","s",
      " ","a","n","d"," ","D","i","r","e","c","t","o","r","s",".",
      "d","o","c","x">>

Uploads ==
    {upload_aoa_acme, upload_aoa_acme_again, upload_board_acme,
     upload_random, upload_articles, upload_ubo, upload_first_three,
     upload_last_four}

Batches == UNION {[1..n -> Uploads] : n \in 0..MaxFiles}

\* a reviewed document left under reviewed_docs by an earlier run
earlier_upload == <<"/","t","m","p","/","g","r","a","d","i","o","/","0","/","A","o",
      "A","_","A","c","m","e",".","d","o","c","x">>

EarlierOutput ==
    path_join(output_dir, reviewed_prefix \o basename(earlier_upload))
        :> InsertComments(
               OpenDocument(earlier_upload, basename(earlier_upload), TRUE),
               simulate_llm_analysis(basename(earlier_upload)))

NoFilesOnDisk == [p \in {} |-> NoResult]

frag_aoa == <<"A","o","A">>
frag_articles == <<"A","r","t","i","c","l","e","s">>
frag_board == <<"B","O","A","R","D">>
frag_resolution == <<"R","e","s","o","l","u","t","i","o","n">>
frag_memo == <<"M","e","m","o">>
frag_moa == <<"M","o","A">>
frag_ubo == <<"U","B","O">>
frag_register == <<"r","e","g","i","s","t","e","r">>
frag_file == <<"f","i","l","e">>
frag_sep == <<"_">>

Fragments ==
    {frag_aoa, frag_articles, frag_board, frag_resolution, frag_memo,
     frag_moa, frag_ubo, frag_register, frag_file, frag_sep}

RECURSIVE Concat(_)
Concat(parts) ==
    IF parts = <<>> THEN <<>> ELSE Head(parts) \o Concat(Tail(parts))

ClassifierNames ==
    {Concat(parts) : parts \in UNION {[1..n -> Fragments] : n \in 0..MaxFrags}}

---------------------------------------------------------------------------
(* analyze_documents *)

Init ==
    /\ \/ files_given = FALSE /\ files = <<>>
       \/ files_given = TRUE /\ files \in Batches
    /\ pc = "start"
    /\ incorporation_checklist = new_checklist
    /\ all_issues = <<>>
    /\ reviewed_file_paths = <<>>
    /\ \/ dir_exists = FALSE /\ fs = NoFilesOnDisk
       \/ dir_exists = TRUE /\ fs \in {NoFilesOnDisk, EarlierOutput}
    /\ i = 0
    /\ doc_name = <<>>
    /\ analysis_result = UnknownAnalysis
    /\ progress_log = <<>>
    /\ result = NoResult
    /\ raised = NotRaised

\* lines 68-69
RaiseNoInput ==
    /\ pc = "start"
    /\ NoFiles(files_given, files)
    /\ pc' = "raised"
    /\ raised' = "Please upload at least one document."
    /\ UNCHANGED <<files_given, files, incorporation_checklist, all_issues,
                   reviewed_file_paths, dir_exists, fs, i, doc_name,
                   analysis_result, progress_log, result>>

\* lines 72-90
Setup ==
    /\ pc = "start"
    /\ ~NoFiles(files_given, files)
    /\ incorporation_checklist' = new_checklist
    /\ all_issues' = <<>>
    /\ reviewed_file_paths' = <<>>
    /\ dir_exists' = TRUE
    /\ i' = 0
    /\ pc' = "loop"
    /\ UNCHANGED <<files_given, files, fs, doc_name, analysis_result,
                   progress_log, result, raised>>

\* a slip: no try/except, a document that cannot be opened ends the run
ProcessOne_unguarded(parse_ok) ==
    IF parse_ok
    THEN LET file_name == files[i + 1]
             name      == basename(file_name)
             doc       == OpenDocument(file_name, name, TRUE)
             analysis  == simulate_llm_analysis(name)
             path      == path_join(output_dir, reviewed_prefix \o name)
         IN  /\ progress_log' = Append(progress_log,
                                       [num |-> i, den |-> Len(files),
                                        desc |-> "Analyzing", name |-> name])
             /\ doc_name' = name
             /\ incorporation_checklist' = UpdateChecklist(incorporation_checklist, name)
             /\ analysis_result' = analysis
             /\ all_issues' = ExtendIssues(all_issues, file_name, name, analysis)
             /\ fs' = Save(fs, path, InsertComments(doc, analysis))
             /\ reviewed_file_paths' = Append(reviewed_file_paths, path)
             /\ i' = i + 1
             /\ UNCHANGED <<files_given, files, pc, dir_exists, result, raised>>
    ELSE /\ pc' = "raised"
         /\ raised' = "PackageNotFoundError"
         /\ progress_log' = Append(progress_log,
                                   [num |-> i, den |-> Len(files),
                                    desc |-> "Analyzing",
                                    name |-> basename(files[i + 1])])
         /\ doc_name' = basename(files[i + 1])
         /\ UNCHANGED <<files_given, files, incorporation_checklist,
                        all_issues, reviewed_file_paths, dir_exists, fs, i,
                        analysis_result, result>>

\* one iteration of the loop over the files, lines 91-132
ProcessOne(parse_ok) ==
    LET file_name == files[i + 1]
        name      == basename(file_name)
        doc       == OpenDocument(file_name, name, parse_ok)
        analysis  == simulate_llm_analysis(name)
        path      == path_join(output_dir, reviewed_prefix \o name)
    IN  /\ progress_log' = Append(progress_log,
                                  [num |-> i, den |-> Len(files),
                                   desc |-> "Analyzing", name |-> name])
        /\ doc_name' = name
        /\ incorporation_checklist' = UpdateChecklist(incorporation_checklist, name)
        /\ analysis_result' = analysis
        /\ all_issues' = ExtendIssues(all_issues, file_name, name, analysis)
        /\ fs' = Save(fs, path, InsertComments(doc, analysis))
        /\ reviewed_file_paths' = Append(reviewed_file_paths, path)
        /\ i' = i + 1
        /\ UNCHANGED <<files_given, files, pc, dir_exists, result, raised>>

ProcessFile ==
    /\ pc = "loop"
    /\ i < Len(files)
    /\ \E parse_ok \in BOOLEAN : ProcessOne(parse_ok)

\* lines 134-154
GenerateReport ==
    /\ pc = "loop"
    /\ i = Len(files)
    /\ progress_log' = Append(progress_log,
                              [num |-> 1, den |-> 1,
                               desc |-> "Generating final report", name |-> <<>>])
    /\ result' = [returned |-> TRUE,
                  summary  |-> checklist_summary(files, incorporation_checklist),
                  report   |-> report(files, incorporation_checklist, all_issues),
                  paths    |-> reviewed_file_paths]
    /\ pc' = "done"
    /\ UNCHANGED <<files_given, files, incorporation_checklist, all_issues,
                   reviewed_file_paths, dir_exists, fs, i, doc_name,
                   analysis_result, raised>>

Next ==
    \/ RaiseNoInput
    \/ Setup
    \/ ProcessFile
    \/ GenerateReport

Spec == Init /\ [][Next]_vars

---------------------------------------------------------------------------
(* simulate_llm_analysis called on its own *)

InitClassify ==
    /\ files_given = FALSE
    /\ files = <<>>
    /\ pc = "classify"
    /\ incorporation_checklist = new_checklist
    /\ all_issues = <<>>
    /\ reviewed_file_paths = <<>>
    /\ dir_exists = FALSE
    /\ fs = NoFilesOnDisk
    /\ i = 0
    /\ doc_name \in ClassifierNames
    /\ analysis_result = UnknownAnalysis
    /\ progress_log = <<>>
    /\ result = NoResult
    /\ raised = NotRaised

Classify ==
    /\ pc = "classify"
    /\ analysis_result' = simulate_llm_analysis(doc_name)
    /\ pc' = "classified"
    /\ UNCHANGED <<files_given, files, incorporation_checklist, all_issues,
                   reviewed_file_paths, dir_exists, fs, i, doc_name,
                   progress_log, result, raised>>

NextClassify == Classify

SpecClassify == InitClassify /\ [][NextClassify]_vars

---------------------------------------------------------------------------
(* What the claims are stated with *)

\* the display name of every uploaded file, in input order
DisplayNames(f) == [k \in 1..Len(f) |-> basename(f[k])]

\* the files argument is empty or absent
EmptyInput == ~files_given \/ files = <<>>

\* the label text before '(', trimmed and lower-cased, written out
stated_keys ==
    <<<<"a","r","t","i","c","l","e","s"," ","o","f"," ","a","s","s","o",
      "c","i","a","t","i","o","n">>,
      <<"m","e","m","o","r","a","n","d","u","m"," ","o","f"," ","a","s",
      "s","o","c","i","a","t","i","o","n">>,
      <<"b","o","a","r","d"," ","r","e","s","o","l","u","t","i","o","n",
      " ","t","e","m","p","l","a","t","e","s">>,
      <<"s","h","a","r","e","h","o","l","d","e","r"," ","r","e","s","o",
      "l","u","t","i","o","n"," ","t","e","m","p","l","a","t","e",
      "s">>,
      <<"i","n","c","o","r","p","o","r","a","t","i","o","n"," ","a","p",
      "p","l","i","c","a","t","i","o","n"," ","f","o","r","m">>,
      <<"u","b","o"," ","d","e","c","l","a","r","a","t","i","o","n"," ",
      "f","o","r","m">>,
      <<"r","e","g","i","s","t","e","r"," ","o","f"," ","m","e","m","b",
      "e","r","s"," ","a","n","d"," ","d","i","r","e","c","t","o",
      "r","s">>>>

\* category k's simplified key occurs in some lower-cased uploaded name
KeyUploaded(k, f) ==
    \E j \in 1..Len(f) : Contains(stated_keys[k], lower(basename(f[j])))

FirstUnmatched(f) ==
    LET open == {k \in 1..Len(stated_keys) : ~KeyUploaded(k, f)}
    IN  IF open = {} THEN none_sentinel
        ELSE checklist_keys[CHOOSE k \in open : \A m \in open : k <= m]

\* one file's classifier issues, each carrying the file's display name
IssuesOf(name) ==
    LET found == simulate_llm_analysis(name).issues
    IN  [k \in 1..Len(found) |->
            [document   |-> name,
             section    |-> found[k].section,
             issue      |-> found[k].issue,
             severity   |-> found[k].severity,
             suggestion |-> found[k].suggestion]]

RECURSIVE IssuesInOrder(_)
IssuesInOrder(names) ==
    IF names = <<>> THEN <<>>
    ELSE IssuesOf(Head(names)) \o IssuesInOrder(Tail(names))

RECURSIVE IssueCount(_)
IssueCount(names) ==
    IF names = <<>> THEN 0
    ELSE Len(simulate_llm_analysis(Head(names)).issues) + IssueCount(Tail(names))

\* the checklist after the names are processed in the given order
RECURSIVE ChecklistAfter(_)
ChecklistAfter(names) ==
    IF names = <<>> THEN new_checklist
    ELSE UpdateChecklist(ChecklistAfter(SubSeq(names, 1, Len(names) - 1)),
                         names[Len(names)])

Reorderings(f) ==
    {[k \in 1..Len(f) |-> f[p[k]]] :
        p \in {q \in [1..Len(f) -> 1..Len(f)] :
                  \A a, b \in 1..Len(f) : a # b => q[a] # q[b]}}

HasSeverity(issues, s) == \E k \in 1..Len(issues) : issues[k].severity = s

---------------------------------------------------------------------------
(* Claims about analyze_documents, under Spec *)

\* C1: for the batch "AoA_Acme.docx", "Board_Resolution_Acme.docx" (in that
\* order) the report's missing_document is
\* "Memorandum of Association (MoA/MoU)".
C1_ScenarioMissingIsMemorandum ==
    (pc = "done" /\ DisplayNames(files) =
        <<basename(upload_aoa_acme), basename(upload_board_acme)>>)
        => result.report.missing_document = label_moa

\* C2: for every non-empty batch, in any order, missing_document is the first
\* category in declared order whose simplified key is a substring of no
\* lower-cased uploaded file name, and is "None" exactly when all seven keys
\* occur in some uploaded name.
C2_MissingIsFirstUnmatched ==
    pc = "done" =>
        /\ result.report.missing_document = FirstUnmatched(files)
        /\ (result.report.missing_document = none_sentinel
              <=> \A k \in 1..Len(stated_keys) : KeyUploaded(k, files))

C2_Witness ==
    /\ pc = "done"
    /\ files = <<upload_last_four, upload_first_three>>
    /\ result.report.missing_document = none_sentinel

\* C5: a call with an empty or absent file list ends in the error, and
\* nothing else happens: the output directory and its files are as they
\* were, progress is never called, nothing is returned.
C5_EmptyInputOnlyRaises ==
    [][(pc = "start" /\ EmptyInput) =>
          /\ pc' = "raised"
          /\ raised' # NotRaised
          /\ dir_exists' = dir_exists
          /\ fs' = fs
          /\ reviewed_file_paths' = <<>>
          /\ progress_log' = <<>>
          /\ result' = NoResult]_vars

C5_Witness ==
    /\ pc = "raised"
    /\ files_given
    /\ files = <<>>
    /\ ~dir_exists
    /\ progress_log = <<>>

\* C6: a file that cannot be opened as a document never ends the run: the
\* only error is the one for empty input, every file reached so far has its
\* reviewed document saved, and the summary and report returned are the
\* ones the file names alone determine, whichever files failed to open.
C6_ParseFailureIsRecovered ==
    /\ pc = "raised" => EmptyInput
    /\ pc \in {"loop", "done"} =>
          /\ Len(reviewed_file_paths) = i
          /\ \A j \in 1..i :
                /\ reviewed_file_paths[j] \in DOMAIN fs
                /\ fs[reviewed_file_paths[j]].comments
                       = simulate_llm_analysis(basename(files[j])).issues
    /\ pc = "done" =>
          /\ i = Len(files)
          /\ result.paths = reviewed_file_paths
          /\ result.report =
                [process            |-> "Company Incorporation",
                 documents_uploaded |-> Len(files),
                 required_documents |-> 7,
                 missing_document   |-> FirstUnmatched(files),
                 issues_found       |-> IssuesInOrder(DisplayNames(files))]
          /\ result.summary.uploaded = Len(files)
          /\ result.summary.required = 7
          /\ result.summary.tail[2] =
                IF FirstUnmatched(files) = none_sentinel THEN <<>>
                ELSE FirstUnmatched(files)

C6_Witness ==
    /\ pc = "done"
    /\ Len(files) = 2
    /\ reviewed_file_paths[1] # reviewed_file_paths[2]
    /\ fs[reviewed_file_paths[1]].base = "placeholder"
    /\ fs[reviewed_file_paths[2]].base = "original"
    /\ Len(result.report.issues_found) = 2

\* C7: after the call returns, every uploaded file has a reviewed document of
\* its own: the N output paths are distinct, and the file at each holds the
\* review of the input it was made for.
C7_OneReviewedFilePerInput ==
    pc = "done" =>
        /\ Len(reviewed_file_paths) = Len(files)
        /\ Cardinality({reviewed_file_paths[j] : j \in 1..Len(files)}) = Len(files)
        /\ \A j \in 1..Len(files) :
              /\ reviewed_file_paths[j] \in DOMAIN fs
              /\ fs[reviewed_file_paths[j]].base = "original"
                    => fs[reviewed_file_paths[j]].source = files[j]

\* C8: issues_found is the concatenation, in input order, of each file's
\* classifier issues tagged with that file's display name; its length is
\* the sum of the per-file issue counts.
C8_IssuesAreConcatenation ==
    pc = "done" =>
        /\ result.report.issues_found = IssuesInOrder(DisplayNames(files))
        /\ Len(result.report.issues_found) = IssueCount(DisplayNames(files))

C8_Witness ==
    /\ pc = "done"
    /\ Len(files) = 2
    /\ simulate_llm_analysis(basename(files[1])).issues = <<>>
    /\ Len(result.report.issues_found) = 1
    /\ result.report.issues_found[1].document = basename(files[2])

\* C9: the seven flags start false, a flag never goes from true to false
\* during the run, and the flags at the end are those reached by processing
\* the same files in any other order.
C9_ChecklistMonotonic ==
    /\ []((pc = "loop" /\ i = 0) => \A k \in 1..7 : ~incorporation_checklist[k])
    /\ [][\A k \in 1..7 :
             incorporation_checklist[k] => incorporation_checklist'[k]]_vars
    /\ [](pc = "done" =>
             \A g \in Reorderings(DisplayNames(files)) :
                 \A k \in 1..7 :
                     incorporation_checklist[k] <=> ChecklistAfter(g)[k])

C9_Witness ==
    /\ pc = "done"
    /\ Len(files) = 2
    /\ incorporation_checklist[1]
    /\ ~Contains(stated_keys[1], lower(basename(files[2])))

\* C10: when the "Articles of Association (AoA)" category is satisfied at
\* the end of a batch, some uploaded file was classified Articles of
\* Association; so a report whose missing_document is not that category has
\* a High-severity issue, and a report with missing_document "None" has an
\* issue.
C10_ArticlesFlagImpliesHighIssue ==
    pc = "done" =>
        /\ incorporation_checklist[1] =>
              \E j \in 1..Len(files) :
                  simulate_llm_analysis(basename(files[j])).doc_type
                      = "Articles of Association"
        /\ result.report.missing_document # label_aoa =>
              HasSeverity(result.report.issues_found, "High")
        /\ result.report.missing_document = none_sentinel =>
              result.report.issues_found # <<>>

C10_Witness ==
    /\ pc = "done"
    /\ result.report.missing_document = label_moa
    /\ HasSeverity(result.report.issues_found, "High")

---------------------------------------------------------------------------
(* Claims about simulate_llm_analysis, under SpecClassify *)

HasBoardAndResolution(name) ==
    Contains(kw_board, lower(name)) /\ Contains(kw_resolution, lower(name))

HasArticlesWord(name) ==
    Contains(kw_articles, lower(name)) \/ Contains(kw_aoa, lower(name))

IsBoardResolutionResult(analysis) ==
    /\ analysis.doc_type = "Board Resolution"
    /\ Len(analysis.issues) = 1
    /\ analysis.issues[1].severity = "Medium"

\* C3 as stated: every name containing both "board" and "resolution",
\* whatever else it contains, is classified Board Resolution with exactly
\* one issue, of severity Medium.
C3_BoardResolutionWhateverElse ==
    (pc = "classified" /\ HasBoardAndResolution(doc_name))
        => IsBoardResolutionResult(analysis_result)

\* C3 as amended: every name containing both "board" and "resolution" and
\* neither "articles" nor "aoa" is classified Board Resolution with exactly
\* one issue, of severity Medium.
C3_BoardResolutionUnlessArticles ==
    (pc = "classified" /\ HasBoardAndResolution(doc_name)
                       /\ ~HasArticlesWord(doc_name))
        => IsBoardResolutionResult(analysis_result)

C3_Witness ==
    /\ pc = "classified"
    /\ doc_name = frag_memo \o frag_board \o frag_resolution
    /\ IsBoardResolutionResult(analysis_result)

\* the priority table, row by row, over the lower-cased name
TableRow(l) ==
    CASE Contains(kw_articles, l) \/ Contains(kw_aoa, l) -> 1
      [] /\ ~(Contains(kw_articles, l) \/ Contains(kw_aoa, l))
         /\ Contains(kw_board, l) /\ Contains(kw_resolution, l) -> 2
      [] /\ ~(Contains(kw_articles, l) \/ Contains(kw_aoa, l))
         /\ ~(Contains(kw_board, l) /\ Contains(kw_resolution, l))
         /\ (Contains(kw_memo, l) \/ Contains(kw_moa, l)) -> 3
      [] /\ ~(Contains(kw_articles, l) \/ Contains(kw_aoa, l))
         /\ ~(Contains(kw_board, l) /\ Contains(kw_resolution, l))
         /\ ~(Contains(kw_memo, l) \/ Contains(kw_moa, l))
         /\ Contains(kw_ubo, l) -> 4
      [] /\ ~(Contains(kw_articles, l) \/ Contains(kw_aoa, l))
         /\ ~(Contains(kw_board, l) /\ Contains(kw_resolution, l))
         /\ ~(Contains(kw_memo, l) \/ Contains(kw_moa, l))
         /\ ~Contains(kw_ubo, l)
         /\ Contains(kw_register, l) -> 5
      [] OTHER -> 6

TableDocType ==
    <<"Articles of Association", "Board Resolution",
      "Memorandum of Association", "UBO Declaration Form",
      "Register of Members and Directors", "General Document">>

TableSeverities ==
    <<(<<"High">>), (<<"Medium">>), (<<>>), (<<>>), (<<>>), (<<"Low">>)>>

\* C4: the classifier returns, for every name, the row of the priority
\* table that its lower-cased name selects first-match-wins: that row's
\* doc_type and that row's issues (one High, one Medium, none, none, none,
\* one Low); never another doc_type, never more than one issue.
C4_PriorityTable ==
    pc = "classified" =>
        LET row == TableRow(lower(doc_name))
        IN  /\ analysis_result.doc_type = TableDocType[row]
            /\ [k \in 1..Len(analysis_result.issues) |->
                    analysis_result.issues[k].severity] = TableSeverities[row]
            /\ Len(analysis_result.issues) <= 1

C4_Witness ==
    /\ pc = "classified"
    /\ doc_name = frag_ubo \o frag_memo \o frag_register
    /\ analysis_result.doc_type = "Memorandum of Association"
    /\ analysis_result.issues = <<>>

====
